---- MODULE Spec2Model ----
(***************************************************************************)
(* Mode controller of src/src/app.ts (class App): the four presentation    *)
(* modes, the asynchronous transitions between them and the life cycle of  *)
(* the Babylon scenes ("stages") they create and dispose.                  *)
(*                                                                         *)
(* JavaScript runs every handler to its next `await` without interruption, *)
(* so one action of the model is one such run: the part of a method up to  *)
(* its first await, or the part between two awaits.  Every `await` is a    *)
(* suspension point: frame ticks, pointer events and other continuations   *)
(* may run before the awaited promise settles.                             *)
(*                                                                         *)
(* A run is written as the list of primitive operations it performs, in    *)
(* source order (goToStartBegin, goToStartResume, ...).  Run executes such *)
(* a list on the fields of App and returns the new fields together with    *)
(* the log of what was done; the log of the last run is the variable ev.   *)
(***************************************************************************)
EXTENDS Naturals, Sequences, FiniteSets

\* Largest number of scenes created in one behaviour (the constructor's
\* placeholder included).  Twelve reach the game stage of a third playthrough.
MaxStages == 12

\* Largest number of transition methods in flight at once.
MaxTasks == 4

VARIABLES
    stages,      \* every Scene ever constructed, by creation order
    _scene,      \* App._scene: index of the scene the render loop draws
    _gameScene,  \* App._gameScene
    _cutScene,   \* App._cutScene
    _state,      \* App._state
    assets,      \* App.assets: 0 = unset, else the scene whose meshes they are
    _player,     \* App._player: the assets and scene handed to new Player
    loading,     \* engine loading UI shown (displayLoadingUI / hideLoadingUI)
    tasks,       \* the async methods suspended at an await
    main,        \* position of App.main
    caught,      \* rejections that reached main().catch
    unhandled,   \* rejections of promises nobody awaits or catches
    ev           \* log of the primitive operations of the last run

vars == <<stages, _scene, _gameScene, _cutScene, _state, assets, _player,
          loading, tasks, main, caught, unhandled, ev>>

----------------------------------------------------------------------------
\* Primitive operations

\* In an operation, scene index This stands for the value of this._scene at
\* the moment the operation executes.
This == 0

O(op, id, a) == [op |-> op, id |-> id, a |-> a]

\* new Scene(engine): a Babylon scene is attached to the canvas input by its
\* constructor (the code relies on it: only _goToGame ever calls
\* attachControl, "attach control back"); it is not ready and not disposed.
\* kind names the method that constructed it; btn is the GUI button hosted on
\* it, cap the scene captured by that button's callback; laidOut says the
\* scene was rendered, which is what lays out its GUI for picking.
NewScene(kind) ==
    [kind |-> kind, attached |-> TRUE, ready |-> FALSE, disposed |-> FALSE,
     laidOut |-> FALSE, btn |-> "none", cap |-> 0]

\* The fields of App as one record, log included.
Fields ==
    [stages |-> stages, scene |-> _scene, gameScene |-> _gameScene,
     cutScene |-> _cutScene, state |-> _state, assets |-> assets,
     player |-> _player, loading |-> loading, log |-> <<>>]

\* The scene an operation acts on.
Target(s, o) == IF o.id = This THEN s.scene ELSE o.id

\* Effect of one primitive operation on the fields.
Effect(s, o) ==
    LET x == Target(s, o)
        last == Len(s.stages)
    IN CASE o.op = "display"   -> [s EXCEPT !.loading = TRUE]
         [] o.op = "hide"      -> [s EXCEPT !.loading = FALSE]
         [] o.op = "new"       -> [s EXCEPT !.stages = Append(@, NewScene(o.a))]
         [] o.op = "detach"    -> [s EXCEPT !.stages[x].attached = FALSE]
         [] o.op = "attach"    -> [s EXCEPT !.stages[x].attached = TRUE]
         [] o.op = "ready"     -> [s EXCEPT !.stages[x].ready = TRUE]
         [] o.op = "dispose"   -> [s EXCEPT !.stages[x].disposed = TRUE,
                                            !.stages[x].attached = FALSE]
         [] o.op = "render"    -> [s EXCEPT !.stages[x].laidOut = TRUE]
         [] o.op = "button"    -> [s EXCEPT !.stages[last].btn = o.a,
                                            !.stages[last].cap = x]
         [] o.op = "scene"     -> [s EXCEPT !.scene = x]
         [] o.op = "cutScene"  -> [s EXCEPT !.cutScene = x]
         [] o.op = "gameScene" -> [s EXCEPT !.gameScene = x]
         [] o.op = "state"     -> [s EXCEPT !.state = o.a]
         [] o.op = "assets"    -> [s EXCEPT !.assets = x]
         [] o.op = "player"    -> [s EXCEPT !.player =
                                      [assets |-> s.assets, scene |-> x]]
         [] OTHER              -> s

\* One operation: its effect, and its entry in the log with the scene resolved.
Exec(s, o) ==
    LET t == Effect(s, o)
    IN [t EXCEPT !.log = Append(@, [o EXCEPT !.id = Target(s, o)])]

\* A run: the operations of ops in order.
RECURSIVE Run(_, _)
Run(s, ops) ==
    IF ops = <<>> THEN s ELSE Run(Exec(s, Head(ops)), Tail(ops))

----------------------------------------------------------------------------
\* The methods of App, as runs between awaits.  n is the index the next
\* constructed scene gets.

\* _goToStart up to `await scene.whenReadyAsync()`.
goToStartBegin(n) ==
    << O("display", This, ""), O("detach", This, ""),
       O("new", n, "start"), O("button", n, "start") >>

\* _goToStart after the await, without the dispose of the outgoing scene.
goToStartResumeNoDispose(scene) ==
    << O("ready", scene, ""), O("hide", This, ""),
       O("scene", scene, ""), O("state", This, "START") >>

\* _goToStart after the await.
goToStartResume(scene) ==
    << O("ready", scene, ""), O("hide", This, ""), O("dispose", This, ""),
       O("scene", scene, ""), O("state", This, "START") >>

\* _goToCutScene with this._scene assigned before the await.
goToCutSceneBeginSwapEarly(n) ==
    << O("display", This, ""), O("detach", This, ""),
       O("new", n, "cut"), O("cutScene", n, ""), O("button", n, "next"),
       O("scene", n, "") >>

\* _goToCutScene up to `await this._cutScene.whenReadyAsync()`.
goToCutSceneBegin(n) ==
    << O("display", This, ""), O("detach", This, ""),
       O("new", n, "cut"), O("cutScene", n, ""), O("button", n, "next") >>

\* _setUpGame without the assignment of this._gameScene.
setUpGameBeginNoAssign(n) ==
    << O("new", n, "game") >>

\* _setUpGame up to `await this._environment.load()`.
setUpGameBegin(n) ==
    << O("new", n, "game"), O("gameScene", n, "") >>

\* _goToCutScene after the await, up to the await inside _setUpGame.
goToCutSceneResume(awaited, cut, n) ==
    << O("ready", awaited, ""), O("hide", This, ""), O("dispose", This, ""),
       O("state", This, "CUTSCENE"), O("scene", cut, "") >>
    \o setUpGameBegin(n)

\* _loadCharacterAssets: the meshes are built in scene, then stored.
loadCharacterAssets(scene) ==
    << O("assets", scene, "") >>

\* _goToLose with the new scene constructed before the current one is detached.
goToLoseBeginNewFirst(n) ==
    << O("display", This, ""), O("new", n, "lose"),
       O("button", n, "mainmenu"), O("detach", This, "") >>

\* _goToLose with the current scene disposed before the new one is awaited.
goToLoseBeginEarlyDispose(n) ==
    << O("display", This, ""), O("detach", This, ""), O("dispose", This, ""),
       O("new", n, "lose"), O("button", n, "mainmenu") >>

\* _goToLose up to `await scene.whenReadyAsync()`.
goToLoseBegin(n) ==
    << O("display", This, ""), O("detach", This, ""),
       O("new", n, "lose"), O("button", n, "mainmenu") >>

\* _goToLose after the await, with the mode of _goToStart assigned at the end.
goToLoseResumeWrongState(scene) ==
    << O("ready", scene, ""), O("hide", This, ""), O("dispose", This, ""),
       O("scene", scene, ""), O("state", This, "START") >>

\* _goToLose after the await.
goToLoseResume(scene) ==
    << O("ready", scene, ""), O("hide", This, ""), O("dispose", This, ""),
       O("scene", scene, ""), O("state", This, "LOSE") >>

\* _initializeGameAsync: new Player(this.assets, scene, ...) reads
\* assets.mesh and throws a TypeError when this.assets is unset.
initializeGameAsync(scene, hasAssets) ==
    IF hasAssets THEN << O("player", scene, "") >> ELSE <<>>

\* _goToGame up to `await this._initializeGameAsync(scene)`.
goToGameBegin(scene, hasAssets) ==
    << O("detach", This, ""), O("button", scene, "lose"),
       O("detach", scene, "") >>
    \o initializeGameAsync(scene, hasAssets)

\* _goToGame after the await, with this._scene assigned before the dispose.
goToGameResumeSwapFirst(scene) ==
    << O("ready", scene, ""), O("scene", scene, ""), O("dispose", This, ""),
       O("state", This, "GAME"),
       O("hide", This, ""), O("attach", This, "") >>

\* _goToGame after `await scene.whenReadyAsync()`.
goToGameResume(scene) ==
    << O("ready", scene, ""), O("dispose", This, ""),
       O("state", This, "GAME"), O("scene", scene, ""),
       O("hide", This, ""), O("attach", This, "") >>

\* The start callback with neither detachControl call.
startButtonUpNoDetach(cap, n) ==
    << O("display", This, ""),
       O("new", n, "cut"), O("cutScene", n, ""), O("button", n, "next") >>

\* The button callbacks.
startButtonUp(cap, n) == goToCutSceneBegin(n) \o << O("detach", cap, "") >>
nextUp(scene, hasAssets) == goToGameBegin(scene, hasAssets)
loseBtnDown(cap, n) == goToLoseBegin(n) \o << O("detach", cap, "") >>
mainBtnUp(n) == goToStartBegin(n)

\* The render-loop callback: every mode renders this._scene.
renderLoop(state) ==
    IF state \in {"START", "CUTSCENE", "GAME", "LOSE"}
    THEN << O("render", This, "") >> ELSE <<>>

\* The constructor, with main() run up to `await this._goToStart()`.
constructorOps ==
    << O("new", 1, "boot"), O("scene", 1, ""), O("gameScene", 1, ""),
       O("cutScene", 1, "") >>
    \o goToStartBegin(2)

----------------------------------------------------------------------------
\* Tasks: async methods suspended at an await.

Task(m, pc, scene, caller, err) ==
    [m |-> m, pc |-> pc, scene |-> scene, caller |-> caller, err |-> err]

Remove(seq, i) == SubSeq(seq, 1, i - 1) \o SubSeq(seq, i + 1, Len(seq))

\* The fields of App become those of record r.
Commit(r) ==
    /\ stages' = r.stages
    /\ _scene' = r.scene
    /\ _gameScene' = r.gameScene
    /\ _cutScene' = r.cutScene
    /\ _state' = r.state
    /\ assets' = r.assets
    /\ _player' = r.player
    /\ loading' = r.loading
    /\ ev' = r.log

\* A pointer event reaches button b of scene h: the scene listens to the
\* canvas, and its GUI was laid out by a render of the scene.
Pressable(h, b) ==
    /\ stages[h].btn = b
    /\ stages[h].attached
    /\ stages[h].laidOut
    /\ ~stages[h].disposed

Init ==
    LET r == Run([stages |-> <<>>, scene |-> 0, gameScene |-> 0,
                  cutScene |-> 0, state |-> "START", assets |-> 0,
                  player |-> [assets |-> 0, scene |-> 0],
                  loading |-> FALSE, log |-> <<>>], constructorOps)
    IN /\ stages = r.stages
       /\ _scene = r.scene
       /\ _gameScene = r.gameScene
       /\ _cutScene = r.cutScene
       /\ _state = r.state
       /\ assets = r.assets
       /\ _player = r.player
       /\ loading = r.loading
       /\ ev = r.log
       /\ tasks = << Task("goToStart", "whenReady", 2, "main", FALSE) >>
       /\ main = "awaitStart"
       /\ caught = 0
       /\ unhandled = 0

\* startButton.onPointerUpObservable
PressStart(h) ==
    /\ Pressable(h, "start")
    /\ Len(stages) + 2 <= MaxStages
    /\ Len(tasks) < MaxTasks
    /\ LET n == Len(stages) + 1
       IN /\ Commit(Run(Fields, startButtonUp(stages[h].cap, n)))
          /\ tasks' = Append(tasks,
                 Task("goToCutScene", "whenReady", n, "button", FALSE))
    /\ UNCHANGED <<main, caught, unhandled>>

\* next.onPointerUpObservable
PressNext(h) ==
    /\ Pressable(h, "next")
    /\ Len(tasks) < MaxTasks
    /\ Commit(Run(Fields, nextUp(_gameScene, assets # 0)))
    /\ tasks' = Append(tasks,
           Task("goToGame", "initGame", _gameScene, "button", assets = 0))
    /\ UNCHANGED <<main, caught, unhandled>>

\* loseBtn.onPointerDownObservable
PressLose(h) ==
    /\ Pressable(h, "lose")
    /\ Len(stages) + 1 <= MaxStages
    /\ Len(tasks) < MaxTasks
    /\ LET n == Len(stages) + 1
       IN /\ Commit(Run(Fields, loseBtnDown(stages[h].cap, n)))
          /\ tasks' = Append(tasks,
                 Task("goToLose", "whenReady", n, "button", FALSE))
    /\ UNCHANGED <<main, caught, unhandled>>

\* mainBtn.onPointerUpObservable
PressMainMenu(h) ==
    /\ Pressable(h, "mainmenu")
    /\ Len(stages) + 1 <= MaxStages
    /\ Len(tasks) < MaxTasks
    /\ LET n == Len(stages) + 1
       IN /\ Commit(Run(Fields, mainBtnUp(n)))
          /\ tasks' = Append(tasks,
                 Task("goToStart", "whenReady", n, "button", FALSE))
    /\ UNCHANGED <<main, caught, unhandled>>

\* A pointer event over the button of a scene that was detached from the
\* input (scene.detachControl()): no callback runs.
DroppedPointerEvent(h) ==
    /\ stages[h].btn # "none"
    /\ stages[h].laidOut
    /\ ~stages[h].disposed
    /\ ~stages[h].attached
    /\ Commit(Run(Fields, << O("dropped", h, stages[h].btn) >>))
    /\ UNCHANGED <<tasks, main, caught, unhandled>>

\* scene.whenReadyAsync() resolves in _goToStart.
StartReady(i) ==
    /\ tasks[i].m = "goToStart" /\ tasks[i].pc = "whenReady"
    /\ Commit(Run(Fields, goToStartResume(tasks[i].scene)))
    /\ tasks' = Remove(tasks, i)
    /\ main' = IF tasks[i].caller = "main" THEN "resolved" ELSE main
    /\ UNCHANGED <<caught, unhandled>>

\* this._cutScene.whenReadyAsync() resolves in _goToCutScene; the method goes
\* on into _setUpGame and suspends at `await this._environment.load()`.
CutSceneReady(i) ==
    /\ tasks[i].m = "goToCutScene" /\ tasks[i].pc = "whenReady"
    /\ LET n == Len(stages) + 1
       IN /\ Commit(Run(Fields,
                 goToCutSceneResume(tasks[i].scene, _cutScene, n)))
          /\ tasks' = [tasks EXCEPT ![i].pc = "envLoad", ![i].scene = n]
    /\ UNCHANGED <<main, caught, unhandled>>

\* this._environment.load() resolves in _setUpGame, which suspends at
\* `await this._loadCharacterAssets(scene)`.
EnvironmentLoaded(i) ==
    /\ tasks[i].m = "goToCutScene" /\ tasks[i].pc = "envLoad"
    /\ Commit(Run(Fields, <<>>))
    /\ tasks' = [tasks EXCEPT ![i].pc = "charLoad"]
    /\ UNCHANGED <<main, caught, unhandled>>

\* _loadCharacterAssets resolves: this.assets is set, _setUpGame and with it
\* _goToCutScene complete.
CharacterLoaded(i) ==
    /\ tasks[i].m = "goToCutScene" /\ tasks[i].pc = "charLoad"
    /\ Commit(Run(Fields, loadCharacterAssets(tasks[i].scene)))
    /\ tasks' = Remove(tasks, i)
    /\ UNCHANGED <<main, caught, unhandled>>

\* scene.whenReadyAsync() resolves in _goToLose.
LoseReady(i) ==
    /\ tasks[i].m = "goToLose" /\ tasks[i].pc = "whenReady"
    /\ Commit(Run(Fields, goToLoseResume(tasks[i].scene)))
    /\ tasks' = Remove(tasks, i)
    /\ UNCHANGED <<main, caught, unhandled>>

\* `await this._initializeGameAsync(scene)` settles in _goToGame: the method
\* goes on to `await scene.whenReadyAsync()`, or rejects with the TypeError.
GameInitialized(i) ==
    /\ tasks[i].m = "goToGame" /\ tasks[i].pc = "initGame"
    /\ Commit(Run(Fields, IF tasks[i].err
                          THEN << O("reject", tasks[i].scene, tasks[i].m) >>
                          ELSE <<>>))
    /\ IF tasks[i].err
       THEN /\ tasks' = Remove(tasks, i)
            /\ unhandled' = unhandled + 1
       ELSE /\ tasks' = [tasks EXCEPT ![i].pc = "whenReady"]
            /\ UNCHANGED unhandled
    /\ UNCHANGED <<main, caught>>

\* scene.whenReadyAsync() resolves in _goToGame.
GameReady(i) ==
    /\ tasks[i].m = "goToGame" /\ tasks[i].pc = "whenReady"
    /\ Commit(Run(Fields, goToGameResume(tasks[i].scene)))
    /\ tasks' = Remove(tasks, i)
    /\ UNCHANGED <<main, caught, unhandled>>

\* whenReady fails with a load error: the awaiting method rejects.  Only
\* main() has a catch handler; a button callback drops the promise.
LoadFailure(i) ==
    /\ tasks[i].pc = "whenReady"
    /\ Commit(Run(Fields, << O("reject", tasks[i].scene, tasks[i].m) >>))
    /\ tasks' = Remove(tasks, i)
    /\ IF tasks[i].caller = "main"
       THEN /\ main' = "rejected"
            /\ caught' = caught + 1
            /\ UNCHANGED unhandled
       ELSE /\ unhandled' = unhandled + 1
            /\ UNCHANGED <<main, caught>>

\* main() with _goToStart() not awaited before engine.runRenderLoop.
RunRenderLoopNoAwait ==
    /\ main \in {"awaitStart", "resolved"}
    /\ main' = "looping"
    /\ Commit(Run(Fields, <<>>))
    /\ UNCHANGED <<tasks, caught, unhandled>>

\* main() after `await this._goToStart()`: engine.runRenderLoop.
RunRenderLoop ==
    /\ main = "resolved"
    /\ main' = "looping"
    /\ Commit(Run(Fields, <<>>))
    /\ UNCHANGED <<tasks, caught, unhandled>>

\* One frame tick of the render loop.
Frame ==
    /\ main = "looping"
    /\ Commit(Run(Fields, renderLoop(_state)))
    /\ UNCHANGED <<tasks, main, caught, unhandled>>

Next ==
    \/ \E h \in 1..Len(stages) : PressStart(h)
    \/ \E h \in 1..Len(stages) : PressNext(h)
    \/ \E h \in 1..Len(stages) : PressLose(h)
    \/ \E h \in 1..Len(stages) : PressMainMenu(h)
    \/ \E h \in 1..Len(stages) : DroppedPointerEvent(h)
    \/ \E i \in 1..Len(tasks) : StartReady(i)
    \/ \E i \in 1..Len(tasks) : CutSceneReady(i)
    \/ \E i \in 1..Len(tasks) : EnvironmentLoaded(i)
    \/ \E i \in 1..Len(tasks) : CharacterLoaded(i)
    \/ \E i \in 1..Len(tasks) : LoseReady(i)
    \/ \E i \in 1..Len(tasks) : GameInitialized(i)
    \/ \E i \in 1..Len(tasks) : GameReady(i)
    \/ \E i \in 1..Len(tasks) : LoadFailure(i)
    \/ RunRenderLoop
    \/ Frame

Spec == Init /\ [][Next]_vars

----------------------------------------------------------------------------
\* Properties

Stages == 1..Len(stages)

Tasks == 1..Len(tasks)

\* The operations of the last run, by position.
Ops == 1..Len(ev)

\* The last run performed operation op.
Did(op) == \E i \in Ops : ev[i].op = op

\* The documented transition table.
TransitionTable ==
    { <<"START", "CUTSCENE">>, <<"CUTSCENE", "GAME">>,
      <<"GAME", "LOSE">>, <<"LOSE", "START">> }

\* The kind of stage each mode shows.
StageOf(mode) ==
    CASE mode = "START" -> "start" [] mode = "CUTSCENE" -> "cut"
      [] mode = "GAME" -> "game" [] mode = "LOSE" -> "lose"

\* Scenes listening to the input.
Attached == { h \in Stages : stages[h].attached }

\* The _setUpGame call that constructed scene g has not completed.
PreloadPending(g) ==
    \E i \in Tasks : tasks[i].pc \in {"envLoad", "charLoad"} /\ tasks[i].scene = g

AtMostOneAttached == Cardinality(Attached) <= 1

\* C3: a run disposes a scene only after the readiness of the scene it makes
\* current has resolved in that run, and that scene is another one.
DisposeAfterReady ==
    \A i \in Ops :
        ev[i].op = "dispose" =>
            \E j \in 1..(i - 1) :
                /\ ev[j].op = "ready"
                /\ ev[j].id = _scene
                /\ ev[j].id # ev[i].id

\* C3 witness: the cut-scene stage was disposed by the run that made the game
\* stage current.
CutSceneDisposed ==
    \E i \in Ops :
        /\ ev[i].op = "dispose" /\ stages[ev[i].id].kind = "cut"
        /\ _state = "GAME"

\* C4: whenever the render loop runs, the scene it draws is the one created
\* for the current mode, ready and not disposed; so is every scene a frame drew.
FrameSeesCurrentStage ==
    /\ main = "looping" =>
          /\ stages[_scene].kind = StageOf(_state)
          /\ stages[_scene].ready
          /\ ~stages[_scene].disposed
    /\ \A i \in Ops :
          ev[i].op = "render" =>
              /\ main = "looping"
              /\ stages[ev[i].id].kind = StageOf(_state)
              /\ stages[ev[i].id].ready
              /\ ~stages[ev[i].id].disposed

\* C4 witness: a frame drawn while a transition into the game awaits readiness.
FrameDuringTransition ==
    /\ Did("render")
    /\ \E i \in Tasks : tasks[i].m = "goToGame" /\ tasks[i].pc = "whenReady"

FailedStageNeverAttached ==
    \A i \in Ops :
        ev[i].op = "reject" /\ ev[i].a = "goToCutScene" =>
            /\ _state = "START"
            /\ stages[_scene].kind = "start"
            /\ ~stages[_scene].disposed
            /\ _scene # ev[i].id
            /\ ~stages[ev[i].id].attached

\* C7: when a transition started by a button is aborted by a load failure,
\* the current scene listens to the input.
PreviousStageAttachedAfterAbort ==
    \A i \in Ops :
        ev[i].op = "reject" /\ main = "looping" => stages[_scene].attached

\* C8: however often the start button is pressed, at most one _goToCutScene
\* awaits readiness and at most one cut-scene stage is alive, the one held in
\* this._cutScene; the run that enters CUTSCENE makes it current, attached and
\* not disposed.
OneCutSceneStage ==
    /\ Cardinality({ i \in Tasks : tasks[i].m = "goToCutScene"
                                   /\ tasks[i].pc = "whenReady" }) <= 1
    /\ Cardinality({ h \in Stages : stages[h].kind = "cut"
                                    /\ ~stages[h].disposed }) <= 1
    /\ \A h \in Stages :
          stages[h].kind = "cut" /\ ~stages[h].disposed => h = _cutScene
    /\ \A i \in Ops :
          ev[i].op = "state" /\ ev[i].a = "CUTSCENE" =>
              /\ _scene = _cutScene
              /\ stages[_scene].kind = "cut"
              /\ stages[_scene].attached
              /\ ~stages[_scene].disposed

\* C8 witness: a second press of the start button while _goToCutScene awaits
\* readiness; it was dropped.
SecondStartDropped ==
    /\ \E i \in Ops : ev[i].op = "dropped" /\ ev[i].a = "start"
    /\ \E i \in Tasks : tasks[i].m = "goToCutScene" /\ tasks[i].pc = "whenReady"

\* C9: until the bootstrap _goToStart has resolved the mode is START and no
\* scene has been rendered; once the render loop runs, the placeholder scene
\* is disposed and the start stage of the bootstrap is ready.
BootstrapBeforeFrames ==
    /\ main # "looping" =>
          /\ _state = "START"
          /\ ~Did("render")
          /\ \A h \in Stages : ~stages[h].laidOut
    /\ main = "looping" =>
          /\ stages[1].disposed
          /\ stages[2].kind = "start" /\ stages[2].ready
          /\ \A i \in Tasks : tasks[i].caller # "main"

\* C9 witness: the first frame, drawn from the start stage of the bootstrap.
FirstFrame ==
    /\ Did("render") /\ _scene = 2 /\ _state = "START"
    /\ ~stages[2].disposed

\* C10: in every run, displayLoadingUI precedes each detachControl and the
\* readiness of the incoming scene precedes hideLoadingUI.
LoadingSignalsBracketTransition ==
    /\ \A i \in Ops :
          ev[i].op = "detach" => \E j \in 1..(i - 1) : ev[j].op = "display"
    /\ \A i \in Ops :
          ev[i].op = "hide" => \E j \in 1..(i - 1) : ev[j].op = "ready"

\* C11: in every run, the construction of a scene (the constructor's
\* placeholder aside) follows a detachControl of the current scene.
DetachBeforeConstruct ==
    \A i \in Ops :
        ev[i].op = "new" /\ ev[i].a # "boot" =>
            \E j \in 1..(i - 1) : ev[j].op = "detach" /\ ev[j].id = _scene

\* C11, amended: the same for the start, cut-scene and lose stages; the game
\* stage is constructed while the cut-scene stage is current and attached.
DetachBeforeConstructExceptGame ==
    \A i \in Ops :
        /\ ev[i].op = "new" /\ ev[i].a \notin {"boot", "game"} =>
              \E j \in 1..(i - 1) : ev[j].op = "detach" /\ ev[j].id = _scene
        /\ ev[i].op = "new" /\ ev[i].a = "game" =>
              /\ stages[_scene].kind = "cut"
              /\ stages[_scene].attached
              /\ \A j \in Ops : ev[j].op = "detach" => ev[j].id # _scene

\* C11 witness: _goToLose has constructed the lose stage.
LoseStageConstructed ==
    \E i \in Ops : ev[i].op = "new" /\ ev[i].a = "lose"

\* C12: a run that completes a transition (it assigns this._state) attaches
\* the new current scene after it has assigned this._state and this._scene.
AttachIsLastStep ==
    Did("state") =>
        \E j \in Ops :
            /\ ev[j].op = "attach" /\ ev[j].id = _scene
            /\ \A i \in Ops : ev[i].op \in {"state", "scene"} => i < j

\* C13: a game stage that is not the current scene and not disposed is not
\* attached and was never rendered.
ForwardHeldStageUntouched ==
    \A h \in Stages :
        stages[h].kind = "game" /\ h # _scene /\ ~stages[h].disposed =>
            ~stages[h].attached /\ ~stages[h].laidOut

\* A transition is in flight: a method awaits _initializeGameAsync or the
\* readiness of its incoming scene.
InFlight == \E i \in Tasks : tasks[i].pc \in {"initGame", "whenReady"}

\* The button that triggers the outgoing edge of each mode.
TriggerOf(mode) ==
    CASE mode = "START" -> "start" [] mode = "CUTSCENE" -> "next"
      [] mode = "GAME" -> "lose" [] mode = "LOSE" -> "mainmenu"

\* C14: no run renders, attaches, awaits the readiness of or makes current a
\* disposed scene; no method awaits a disposed scene; the scene the render
\* loop draws is not disposed.
DisposedStageNeverUsed ==
    /\ \A i \in Ops :
          ev[i].op \in {"render", "attach", "ready", "scene"} =>
              ~stages[ev[i].id].disposed
    /\ \A i \in Tasks :
          tasks[i].pc \in {"initGame", "whenReady"} =>
              ~stages[tasks[i].scene].disposed
    /\ ~stages[_scene].disposed

\* C14 witness: this._gameScene and this._cutScene still refer to the
\* disposed stages of the last playthrough while the menu is rendered.
StaleReferencesKept ==
    /\ stages[_gameScene].kind = "game" /\ stages[_gameScene].disposed
    /\ stages[_cutScene].kind = "cut" /\ stages[_cutScene].disposed
    /\ _state = "START" /\ Did("render")

\* C15: a step into a state with a transition in flight changes neither the
\* mode nor this._scene; with the render loop running, that scene is ready
\* and not disposed, a frame tick renders it, and the loop is never stopped.
LoadingKeepsPreviousStage ==
    [][ /\ InFlight' =>
             /\ _state' = _state
             /\ _scene' = _scene
             /\ main' = "looping" =>
                   /\ ~stages'[_scene'].disposed
                   /\ stages'[_scene'].ready
        /\ InFlight /\ Frame => ev' = << O("render", _scene, "") >>
        /\ main = "looping" => main' = "looping"
      ]_vars

\* C15 witness: a frame drawn from the game stage while _goToLose awaits the
\* readiness of the lose stage.
FrameWhileLoseLoads ==
    /\ \E i \in Tasks : tasks[i].m = "goToLose" /\ tasks[i].pc = "whenReady"
    /\ ev = << O("render", _scene, "") >>
    /\ stages[_scene].kind = "game"

\* C16: with the render loop running and no transition in flight, the current
\* scene hosts the button of the mode's outgoing edge and listens to the input.
NoTerminalState ==
    main = "looping" /\ ~InFlight =>
        /\ stages[_scene].btn = TriggerOf(_state)
        /\ stages[_scene].attached
        /\ ~stages[_scene].disposed

\* C17: a rejected transition reached the catch handler, exactly once, and
\* no rejection was left unhandled.
FailureReportedOnce ==
    Did("reject") => caught = 1 /\ unhandled = 0

Quiet == tasks = <<>> /\ caught = 0 /\ unhandled = 0

\* C19: in a quiet state every scene is the current one, the game stage held
\* for advance during the cut-scene, or disposed; and no run disposes a scene
\* that was disposed already.
NoStageLeaked ==
    [][ /\ Quiet' =>
             \A h \in 1..Len(stages') :
                 \/ h = _scene'
                 \/ /\ h = _gameScene' /\ _state' = "CUTSCENE"
                    /\ stages'[h].kind = "game"
                 \/ stages'[h].disposed
        /\ \A i \in 1..Len(ev') :
             ev'[i].op = "dispose" => ~stages[ev'[i].id].disposed
      ]_vars

\* C19 witness: a second cut-scene with everything settled; the game stage
\* is held, all scenes of the first playthrough are disposed.
SecondCutSceneSettled ==
    /\ Quiet /\ _state = "CUTSCENE" /\ Len(stages) >= 8
    /\ _gameScene # _scene /\ ~stages[_gameScene].disposed

\* C20: with no transition in flight the loading UI is hidden.
IndicatorHiddenWhenIdle ==
    ~InFlight => ~loading

====
